---- MODULE Spec2Model ----
(***************************************************************************)
(* Model of parakeet_server.py: the transcription request handler          *)
(* (create_transcription), the global model handle (load_model), the       *)
(* landing page (get_index_path, root) and the result-normalisation        *)
(* functions extract_text, clean_text and extract_segments.                *)
(*                                                                         *)
(* Spec runs load_model and the requests one handler step at a time,       *)
(* SpecConcurrent does so for several requests in flight at once,          *)
(* SpecFunctions calls the normalisation functions on raw results and      *)
(* texts, and SpecPages runs load_model and GET /.                         *)
(*                                                                         *)
(* Python values are records tagged by "kind".  A Python string is a       *)
(* sequence of one-character strings, so that the regular expressions of   *)
(* clean_text and the string conversions of extract_text are computed      *)
(* character by character.  A dict and the attributes of an object are     *)
(* sequences of <<name, value>> pairs in insertion order.                  *)
(***************************************************************************)
EXTENDS Integers, Sequences, FiniteSets, TLC

(***************************************************************************)
(* Bounds of the model.                                                    *)
(***************************************************************************)
\* number of transcription requests the server receives
NumReqs == 1
\* number of distinct scratch-file names tempfile can hand out
NumPaths == 2
\* number of transcription requests in flight at once (SpecConcurrent)
NumConcurrent == 2
\* largest number of segments of a raw result (SpecFunctions)
MaxSegs == 2
\* largest number of pieces a text given to clean_text is made of
\* (SpecFunctions)
MaxTokens == 3
\* number of GET / requests the server answers (SpecPages)
MaxRootCalls == 2
\* number of direct calls of load_model (SpecPages)
MaxLoadCalls == 3

(***************************************************************************)
(* Python values.                                                          *)
(***************************************************************************)
PyNone == [kind |-> "None"]
Str(s) == [kind |-> "str", v |-> s]
Num(n) == [kind |-> "num", v |-> n]
List(xs) == [kind |-> "list", v |-> xs]
Dict(items) == [kind |-> "dict", v |-> items]
Obj(attrs) == [kind |-> "obj", v |-> attrs]
\* a raised exception, as the outcome of evaluating an expression
Raise(e) == [kind |-> "raise", v |-> e]
IsRaise(x) == x.kind = "raise"

\* lookup in a sequence of <<name, value>> pairs
HasKey(items, k) == \E i \in DOMAIN items : items[i][1] = k
GetKey(items, k) == items[CHOOSE i \in DOMAIN items : items[i][1] = k][2]

\* hasattr(x, name): only attribute-bearing objects expose text, segments,
\* start and end; str, dict, list, int and None have no such attributes
hasattr(x, name) == x.kind = "obj" /\ HasKey(x.v, name)
getattr(x, name) == GetKey(x.v, name)
\* isinstance(x, dict)
isdict(x) == x.kind = "dict"
\* x.get(k, default) of a dict
dict_get(x, k, default) == IF HasKey(x.v, k) THEN GetKey(x.v, k) ELSE default
\* truth value of a Python value (bool(x))
truthy(x) ==
    CASE x.kind = "None" -> FALSE
      [] x.kind = "str"  -> Len(x.v) > 0
      [] x.kind = "num"  -> x.v # 0
      [] x.kind = "list" -> Len(x.v) > 0
      [] x.kind = "dict" -> Len(x.v) > 0
      [] OTHER           -> TRUE

\* concatenation of a sequence of strings with a separator (str.join)
RECURSIVE JoinStrings(_, _)
JoinStrings(ss, sep) ==
    IF Len(ss) = 0 THEN << >>
    ELSE IF Len(ss) = 1 THEN ss[1]
    ELSE ss[1] \o sep \o JoinStrings(Tail(ss), sep)

\* the decimal digits of a natural number
RECURSIVE Digits(_)
Digits(n) ==
    LET d == <<"0", "1", "2", "3", "4", "5", "6", "7", "8", "9">>
    IN  IF n < 10 THEN << d[n + 1] >> ELSE Digits(n \div 10) \o << d[(n % 10) + 1] >>

\* default rendering of an object without __str__ ("<... object at 0x...>");
\* its address part is not modelled
ObjRepr == <<"<", "o", "b", "j", ">">>

\* the characters of a dict key (keys are kept as whole names for lookup)
KeyChars(k) ==
    CASE k = "text"     -> <<"t", "e", "x", "t">>
      [] k = "segments" -> <<"s", "e", "g", "m", "e", "n", "t", "s">>
      [] k = "start"    -> <<"s", "t", "a", "r", "t">>
      [] k = "end"      -> <<"e", "n", "d">>
      [] k = "other"    -> <<"o", "t", "h", "e", "r">>

\* A character is a one-character string; a character TLA+ cannot write is
\* the string of its Python escape: "\\x0b" is the one character U+000B.
\* The alphabet is printable ASCII, the control characters and the
\* characters str.isspace holds of.
\* repr's escape of the characters it does not copy (the quote and the
\* backslash apart)
Escapes ==
    "\\x00" :> <<"\\", "x", "0", "0">>
      @@ "\\x01" :> <<"\\", "x", "0", "1">>
      @@ "\\x02" :> <<"\\", "x", "0", "2">>
      @@ "\\x03" :> <<"\\", "x", "0", "3">>
      @@ "\\x04" :> <<"\\", "x", "0", "4">>
      @@ "\\x05" :> <<"\\", "x", "0", "5">>
      @@ "\\x06" :> <<"\\", "x", "0", "6">>
      @@ "\\x07" :> <<"\\", "x", "0", "7">>
      @@ "\\x08" :> <<"\\", "x", "0", "8">>
      @@ "\t" :> <<"\\", "t">>
      @@ "\n" :> <<"\\", "n">>
      @@ "\\x0b" :> <<"\\", "x", "0", "b">>
      @@ "\f" :> <<"\\", "x", "0", "c">>
      @@ "\r" :> <<"\\", "r">>
      @@ "\\x0e" :> <<"\\", "x", "0", "e">>
      @@ "\\x0f" :> <<"\\", "x", "0", "f">>
      @@ "\\x10" :> <<"\\", "x", "1", "0">>
      @@ "\\x11" :> <<"\\", "x", "1", "1">>
      @@ "\\x12" :> <<"\\", "x", "1", "2">>
      @@ "\\x13" :> <<"\\", "x", "1", "3">>
      @@ "\\x14" :> <<"\\", "x", "1", "4">>
      @@ "\\x15" :> <<"\\", "x", "1", "5">>
      @@ "\\x16" :> <<"\\", "x", "1", "6">>
      @@ "\\x17" :> <<"\\", "x", "1", "7">>
      @@ "\\x18" :> <<"\\", "x", "1", "8">>
      @@ "\\x19" :> <<"\\", "x", "1", "9">>
      @@ "\\x1a" :> <<"\\", "x", "1", "a">>
      @@ "\\x1b" :> <<"\\", "x", "1", "b">>
      @@ "\\x1c" :> <<"\\", "x", "1", "c">>
      @@ "\\x1d" :> <<"\\", "x", "1", "d">>
      @@ "\\x1e" :> <<"\\", "x", "1", "e">>
      @@ "\\x1f" :> <<"\\", "x", "1", "f">>
      @@ "\\x7f" :> <<"\\", "x", "7", "f">>
      @@ "\\x85" :> <<"\\", "x", "8", "5">>
      @@ "\\xa0" :> <<"\\", "x", "a", "0">>
      @@ "\\u1680" :> <<"\\", "u", "1", "6", "8", "0">>
      @@ "\\u2000" :> <<"\\", "u", "2", "0", "0", "0">>
      @@ "\\u2001" :> <<"\\", "u", "2", "0", "0", "1">>
      @@ "\\u2002" :> <<"\\", "u", "2", "0", "0", "2">>
      @@ "\\u2003" :> <<"\\", "u", "2", "0", "0", "3">>
      @@ "\\u2004" :> <<"\\", "u", "2", "0", "0", "4">>
      @@ "\\u2005" :> <<"\\", "u", "2", "0", "0", "5">>
      @@ "\\u2006" :> <<"\\", "u", "2", "0", "0", "6">>
      @@ "\\u2007" :> <<"\\", "u", "2", "0", "0", "7">>
      @@ "\\u2008" :> <<"\\", "u", "2", "0", "0", "8">>
      @@ "\\u2009" :> <<"\\", "u", "2", "0", "0", "9">>
      @@ "\\u200a" :> <<"\\", "u", "2", "0", "0", "a">>
      @@ "\\u2028" :> <<"\\", "u", "2", "0", "2", "8">>
      @@ "\\u2029" :> <<"\\", "u", "2", "0", "2", "9">>
      @@ "\\u202f" :> <<"\\", "u", "2", "0", "2", "f">>
      @@ "\\u205f" :> <<"\\", "u", "2", "0", "5", "f">>
      @@ "\\u3000" :> <<"\\", "u", "3", "0", "0", "0">>

\* repr(s) of a str: in double quotes when s holds a single quote and no
\* double quote, in single quotes otherwise; the quote in use and the
\* backslash get a backslash, control and space characters other than " "
\* their escape
StrRepr(s) ==
    LET quote == IF (\E i \in DOMAIN s : s[i] = "'") /\ ~(\E i \in DOMAIN s : s[i] = "\"")
                 THEN "\"" ELSE "'"
        esc(c) == IF c = quote \/ c = "\\" THEN <<"\\", c>>
                  ELSE IF c \in DOMAIN Escapes THEN Escapes[c]
                  ELSE << c >>
    IN  << quote >> \o JoinStrings([i \in DOMAIN s |-> esc(s[i])], << >>) \o << quote >>

\* repr(x) and str(x); they differ only on strings (repr adds quotes)
RECURSIVE py_repr(_)
py_repr(x) ==
    CASE x.kind = "None" -> <<"N", "o", "n", "e">>
      [] x.kind = "str"  -> StrRepr(x.v)
      [] x.kind = "num"  -> Digits(x.v)
      [] x.kind = "list" ->
           <<"[">> \o JoinStrings([i \in DOMAIN x.v |-> py_repr(x.v[i])], <<",", " ">>) \o <<"]">>
      [] x.kind = "dict" ->
           <<"{">> \o JoinStrings([i \in DOMAIN x.v |->
                        <<"'">> \o KeyChars(x.v[i][1]) \o <<"'", ":", " ">> \o py_repr(x.v[i][2])],
                      <<",", " ">>) \o <<"}">>
      [] OTHER           -> ObjRepr
py_str(x) == IF x.kind = "str" THEN x.v ELSE py_repr(x)

\* iter(x): the elements a for-loop or generator over x visits, as a list,
\* or TypeError when x is not iterable
py_iter(x) ==
    CASE x.kind = "list" -> x
      [] x.kind = "str"  -> List([i \in DOMAIN x.v |-> Str(<< x.v[i] >>)])
      [] x.kind = "dict" -> List([i \in DOMAIN x.v |-> Str(KeyChars(x.v[i][1]))])
      [] OTHER           -> Raise("TypeError")

\* ' '.join(texts): TypeError unless every element is a str
py_join(texts) ==
    IF \E i \in DOMAIN texts : texts[i].kind # "str" THEN Raise("TypeError")
    ELSE Str(JoinStrings([i \in DOMAIN texts |-> texts[i].v], <<" ">>))

(***************************************************************************)
(* clean_text (lines 334-337).                                             *)
(***************************************************************************)
\* the characters \s of a str pattern matches and str.strip removes: the
\* 29 characters str.isspace holds of
WhiteSpace ==
    {"\t", "\n", "\\x0b", "\f", "\r", "\\x1c", "\\x1d", "\\x1e",
     "\\x1f", " ", "\\x85", "\\xa0", "\\u1680", "\\u2000", "\\u2001",
     "\\u2002", "\\u2003", "\\u2004", "\\u2005", "\\u2006", "\\u2007",
     "\\u2008", "\\u2009", "\\u200a", "\\u2028", "\\u2029", "\\u202f",
     "\\u205f", "\\u3000"}
IsSpace(c) == c \in WhiteSpace

\* first index >= i of s that does not hold whitespace (Len(s)+1 if none)
RECURSIVE SkipSpace(_, _)
SkipSpace(s, i) ==
    IF i <= Len(s) /\ IsSpace(s[i]) THEN SkipSpace(s, i + 1) ELSE i

\* <unk> at index j of s in lower case only (re.IGNORECASE left out)
MatchUnk_case_sensitive(s, j) ==
    /\ j + 4 <= Len(s)
    /\ s[j] = "<"
    /\ s[j + 1] = "u"
    /\ s[j + 2] = "n"
    /\ s[j + 3] = "k"
    /\ s[j + 4] = ">"

\* <unk> at index j of s, ignoring letter case (flags=re.IGNORECASE)
MatchUnk(s, j) ==
    /\ j + 4 <= Len(s)
    /\ s[j] = "<"
    /\ s[j + 1] \in {"u", "U"}
    /\ s[j + 2] \in {"n", "N"}
    /\ s[j + 3] \in {"k", "K"}
    /\ s[j + 4] = ">"

\* re.sub(r'\s*<unk>\s*', ' ', s, flags=re.IGNORECASE) from index i on:
\* leftmost non-overlapping matches, each with its greedy whitespace
RECURSIVE SubUnk(_, _)
SubUnk(s, i) ==
    IF i > Len(s) THEN << >>
    ELSE LET j == SkipSpace(s, i)
         IN  IF MatchUnk(s, j)
             THEN <<" ">> \o SubUnk(s, SkipSpace(s, j + 5))
             ELSE << s[i] >> \o SubUnk(s, i + 1)

\* re.sub(r'\s+', ' ', s) from index i on
RECURSIVE SubSpaces(_, _)
SubSpaces(s, i) ==
    IF i > Len(s) THEN << >>
    ELSE IF IsSpace(s[i])
         THEN <<" ">> \o SubSpaces(s, SkipSpace(s, i))
         ELSE << s[i] >> \o SubSpaces(s, i + 1)

\* s.strip()
RECURSIVE RStrip(_)
RStrip(s) ==
    IF Len(s) > 0 /\ IsSpace(s[Len(s)]) THEN RStrip(SubSeq(s, 1, Len(s) - 1)) ELSE s
Strip(s) == LET i == SkipSpace(s, 1) IN RStrip(SubSeq(s, i, Len(s)))

\* clean_text with the marker removed last, after white space was collapsed
\* and trimmed
CleanChars_unk_last(s) == SubUnk(Strip(SubSpaces(s, 1)), 1)

\* clean_text on the characters of a str
CleanChars(s) == Strip(SubSpaces(SubUnk(s, 1), 1))

\* clean_text(text): re.sub raises TypeError when text is not a str
clean_text(text) ==
    IF text.kind # "str" THEN Raise("TypeError") ELSE Str(CleanChars(text.v))

(***************************************************************************)
(* extract_text (lines 323-332) and extract_segments (lines 339-367).      *)
(***************************************************************************)
\* text of a segment inside an attribute-bearing result (lines 326 and 345)
SegTextAttr(seg) ==
    IF hasattr(seg, "text") THEN getattr(seg, "text")
    ELSE IF isdict(seg) THEN dict_get(seg, "text", Str(<< >>))
    ELSE Str(py_str(seg))

\* text of a segment inside a mapping result (lines 330 and 359)
SegTextDict(seg) ==
    IF isdict(seg) THEN dict_get(seg, "text", Str(<< >>)) ELSE Str(py_str(seg))

extract_text(r) ==
    IF hasattr(r, "text") THEN
        IF hasattr(r, "segments") /\ truthy(getattr(r, "segments")) THEN
            LET segs == py_iter(getattr(r, "segments"))
            IN  IF IsRaise(segs) THEN segs
                ELSE py_join([i \in DOMAIN segs.v |-> SegTextAttr(segs.v[i])])
        ELSE getattr(r, "text")
    ELSE IF isdict(r) THEN
        IF HasKey(r.v, "segments") /\ truthy(GetKey(r.v, "segments")) THEN
            LET segs == py_iter(GetKey(r.v, "segments"))
            IN  IF IsRaise(segs) THEN segs
                ELSE py_join([i \in DOMAIN segs.v |-> SegTextDict(segs.v[i])])
        ELSE LET t == dict_get(r, "text", Str(<< >>))
             IN  IF truthy(t) THEN t ELSE Str(py_str(r))
    ELSE Str(py_str(r))

\* seg_dict of a segment inside an attribute-bearing result (lines 344-354)
SegDictAttr(seg) ==
    Dict(<< <<"text", SegTextAttr(seg)>> >>
         \o (IF hasattr(seg, "start") THEN << <<"start", getattr(seg, "start")>> >>
             ELSE IF isdict(seg) /\ HasKey(seg.v, "start")
                  THEN << <<"start", GetKey(seg.v, "start")>> >>
             ELSE << >>)
         \o (IF hasattr(seg, "end") THEN << <<"end", getattr(seg, "end")>> >>
             ELSE IF isdict(seg) /\ HasKey(seg.v, "end")
                  THEN << <<"end", GetKey(seg.v, "end")>> >>
             ELSE << >>))

\* seg_dict of a segment inside a mapping result (lines 358-365)
SegDictDict(seg) ==
    Dict(<< <<"text", SegTextDict(seg)>> >>
         \o (IF isdict(seg) /\ HasKey(seg.v, "start")
             THEN << <<"start", GetKey(seg.v, "start")>> >> ELSE << >>)
         \o (IF isdict(seg) /\ HasKey(seg.v, "end")
             THEN << <<"end", GetKey(seg.v, "end")>> >> ELSE << >>))

\* extract_segments without the final "if segments else None": the list is
\* returned as it is
extract_segments_keep_empty(r) ==
    LET segments ==
            IF hasattr(r, "segments") /\ truthy(getattr(r, "segments")) THEN
                LET segs == py_iter(getattr(r, "segments"))
                IN  IF IsRaise(segs) THEN segs
                    ELSE List([i \in DOMAIN segs.v |-> SegDictAttr(segs.v[i])])
            ELSE IF isdict(r) /\ HasKey(r.v, "segments") /\ truthy(GetKey(r.v, "segments")) THEN
                LET segs == py_iter(GetKey(r.v, "segments"))
                IN  IF IsRaise(segs) THEN segs
                    ELSE List([i \in DOMAIN segs.v |-> SegDictDict(segs.v[i])])
            ELSE List(<< >>)
    IN  segments

\* extract_segments that skips the segments whose text is empty
extract_segments_skip_empty(r) ==
    LET Worded(d) == truthy(GetKey(d.v, "text"))
        segments ==
            IF hasattr(r, "segments") /\ truthy(getattr(r, "segments")) THEN
                LET segs == py_iter(getattr(r, "segments"))
                IN  IF IsRaise(segs) THEN segs
                    ELSE List(SelectSeq([i \in DOMAIN segs.v |-> SegDictAttr(segs.v[i])], Worded))
            ELSE IF isdict(r) /\ HasKey(r.v, "segments") /\ truthy(GetKey(r.v, "segments")) THEN
                LET segs == py_iter(GetKey(r.v, "segments"))
                IN  IF IsRaise(segs) THEN segs
                    ELSE List(SelectSeq([i \in DOMAIN segs.v |-> SegDictDict(segs.v[i])], Worded))
            ELSE List(<< >>)
    IN  IF IsRaise(segments) THEN segments
        ELSE IF truthy(segments) THEN segments ELSE PyNone

extract_segments(r) ==
    LET segments ==
            IF hasattr(r, "segments") /\ truthy(getattr(r, "segments")) THEN
                LET segs == py_iter(getattr(r, "segments"))
                IN  IF IsRaise(segs) THEN segs
                    ELSE List([i \in DOMAIN segs.v |-> SegDictAttr(segs.v[i])])
            ELSE IF isdict(r) /\ HasKey(r.v, "segments") /\ truthy(GetKey(r.v, "segments")) THEN
                LET segs == py_iter(GetKey(r.v, "segments"))
                IN  IF IsRaise(segs) THEN segs
                    ELSE List([i \in DOMAIN segs.v |-> SegDictDict(segs.v[i])])
            ELSE List(<< >>)
    IN  IF IsRaise(segments) THEN segments
        ELSE IF truthy(segments) THEN segments ELSE PyNone

(***************************************************************************)
(* The server state.                                                       *)
(***************************************************************************)
VARIABLES
    model,                \* the global model handle (line 48)
    from_pretrained,      \* whether parakeet_mlx could be imported (lines 24-27)
    fs,                   \* scratch storage: content of each scratch-file name
    pc,                   \* position of each request in create_transcription
    file,                 \* the uploaded file of each request
    response_format,      \* form field response_format of each request, as sent
    recording_timestamp,  \* form field recording_timestamp of each request, as sent
    p,                    \* scratch-file name of each request (tmp.name)
    calls,                \* the transcribe invocations made for each request
    r,                    \* raw result of each request
    pending,              \* how the try block of each request ended
    removal,              \* what os.remove did in the finally block
    response,             \* the HTTP response of each request
    fcall,                \* a direct call of a normalisation function:
                          \* its name, its argument and what it evaluated to
    index_html,           \* which of the places get_index_path looks at
                          \* hold an index.html
    root_response,        \* the response to the latest GET /
    root_sending,         \* the path of the FileResponse that root has
                          \* returned and that is yet to be sent, or None
    root_calls,           \* number of GET / requests answered
    health_response,      \* the response to the latest GET /health
    loader                \* direct calls of load_model: how many were made,
                          \* how many called snapshot_download, how many
                          \* called from_pretrained, and how many of those
                          \* returned a model

\* the state of load_model and create_transcription
handler_vars == <<model, from_pretrained, fs, pc, file, response_format,
                  recording_timestamp, p, calls, r, pending, removal, response>>
\* the state of the landing page and of GET /
page_vars == <<index_html, root_response, root_sending, root_calls, health_response>>

vars == <<handler_vars, fcall, page_vars, loader>>

Reqs == 1..NumReqs
Paths == 1..NumPaths
NoPath == 0

\* the loaded model object (any object is true in a boolean context)
TheModel == Obj(<< >>)

\* uploaded bytes: their number and a tag that tells two bodies apart
Bytes(n, tag) == [len |-> n, tag |-> tag]
\* a file just created by NamedTemporaryFile holds no bytes
EmptyBytes == Bytes(0, "")
\* a scratch-file name that does not exist on disk
Absent == Bytes(-1, "absent")

MAX_FILE_SIZE == 100 * 1024 * 1024

\* the request bodies the model sends: empty, small, exactly at the limit,
\* one byte over the limit
Contents == {EmptyBytes, Bytes(15, "A"), Bytes(MAX_FILE_SIZE, "B"),
             Bytes(MAX_FILE_SIZE + 1, "C")}
\* an UploadFile: whether it carries a non-empty filename, and its bytes
Files == [filename : BOOLEAN, content : Contents]

Chars_text == <<"t", "e", "x", "t">>
\* values of the response_format form field; an omitted field takes the
\* default "json" (line 376)
Omitted == [kind |-> "omitted"]
FormatInputs == {Omitted, Str(Chars_text)}
\* values of the recording_timestamp form field; default None (line 377)
TimestampInputs == {Omitted, Str(<<"T", "1">>)}
FormValue(given, default) == IF given = Omitted THEN default ELSE given
\* the handler's parameters of request q (lines 376-377)
FormatOf(q) == FormValue(response_format[q], Str(<<"j", "s", "o", "n">>))
TimestampOf(q) == FormValue(recording_timestamp[q], PyNone)

\* raw results the opaque transcribe capability returns in the model
RawObjSegments ==
    Obj(<< <<"text", Str(<<"x">>)>>,
           <<"segments", List(<< Obj(<< <<"text", Str(<<"a">>)>>,
                                        <<"start", Num(0)>>, <<"end", Num(1)>> >>),
                                 Obj(<< <<"text", Str(<<" ", "<", "u", "n", "k", ">", " ", "b">>)>> >>) >>)>> >>)
RawDictText == Dict(<< <<"text", Str(<<"a", " ", " ", "b">>)>> >>)
RawObjNoneText == Obj(<< <<"text", PyNone>> >>)
RawResults == {RawObjSegments, RawDictText, RawObjNoneText}

\* exceptions the transcribe capability raises in the model: the
\* argument-shape error and one other failure
TranscribeErrors == {"TypeError", "Exception"}

\* how a try block ended: with a returned value or a propagating exception
NoPending == [kind |-> "none"]
Return(v) == [kind |-> "return", v |-> v]
Raised(e, site) == [kind |-> "raise", v |-> e, site |-> site]

\* the pydantic response model (lines 146-149)
TranscriptionResponse(text, ts, segs) ==
    [kind |-> "TranscriptionResponse", text |-> text,
     recording_timestamp |-> ts, segments |-> segs]

\* HTTP responses
NoResponse == [status |-> 0, media_type |-> "", body |-> PyNone]
JSONResponse(code, body) ==
    [status |-> code, media_type |-> "application/json", body |-> body]
\* raise HTTPException(status_code, detail)
HTTPException(code, detail) == JSONResponse(code, [kind |-> "detail", v |-> detail])
\* an exception that leaves the handler is answered 500 by the server
InternalServerError ==
    [status |-> 500, media_type |-> "text/plain",
     body |-> [kind |-> "plain", v |-> "Internal Server Error"]]

\* what the route does with the handler's return value: the route declares
\* response_model=TranscriptionResponse (line 374), so the value is validated
\* against that model; a bare str is not a TranscriptionResponse and the
\* validation error is answered 500
serialize_response(ret) ==
    IF ret.kind = "TranscriptionResponse" THEN JSONResponse(200, ret)
    ELSE InternalServerError

\* the response to a finished handler
Respond(pend) ==
    IF pend.kind = "return" THEN serialize_response(pend.v) ELSE InternalServerError

\* the directories get_index_path looks into (lines 271-276): the directory
\* of the server file, its parent, and the working directory, which the
\* third and the fourth candidate both name
Places == {"dirname", "parent", "cwd"}
possible_paths == <<"dirname", "parent", "cwd", "cwd">>

\* no call of load_model has been made
NoLoads == [calls |-> 0, downloads |-> 0, invoked |-> 0, returned |-> 0]

\* a direct call of a normalisation function: its name, its argument and its
\* result; for clean_text applied to its own result, also the result of the
\* inner call
FCall(fn, arg, first, out) == [fn |-> fn, arg |-> arg, first |-> first, out |-> out]
\* no normalisation function is called directly
NoCall == FCall("", PyNone, PyNone, PyNone)

Init ==
    /\ model = PyNone
    /\ from_pretrained \in BOOLEAN
    /\ fs = [x \in Paths |-> Absent]
    /\ pc = [q \in Reqs |-> "idle"]
    /\ file = [q \in Reqs |-> [filename |-> FALSE, content |-> EmptyBytes]]
    /\ response_format = [q \in Reqs |-> Omitted]
    /\ recording_timestamp = [q \in Reqs |-> Omitted]
    /\ p = [q \in Reqs |-> NoPath]
    /\ calls = [q \in Reqs |-> << >>]
    /\ r = [q \in Reqs |-> PyNone]
    /\ pending = [q \in Reqs |-> NoPending]
    /\ removal = [q \in Reqs |-> "none"]
    /\ response = [q \in Reqs |-> NoResponse]
    /\ fcall = NoCall
    /\ index_html = [x \in Places |-> FALSE]
    /\ root_response = NoResponse
    /\ root_sending = PyNone
    /\ root_calls = 0
    /\ health_response = NoResponse
    /\ loader = NoLoads

(***************************************************************************)
(* load_model (lines 151-176): called by lifespan at start-up and by       *)
(* direct callers.  from_pretrained (and the snapshot download before it)  *)
(* either returns a model or raises.                                       *)
(***************************************************************************)
\* load_model without the "model is None" condition: a later call loads
\* again, and a failed load leaves the handle unset
load_model_reload ==
    /\ IF from_pretrained
       THEN \E ok \in BOOLEAN : model' = IF ok THEN TheModel ELSE PyNone
       ELSE model' = model
    /\ UNCHANGED <<fcall, page_vars, loader, from_pretrained, fs, pc, file, response_format,
                   recording_timestamp, p, calls, r, pending, removal, response>>

load_model ==
    /\ IF model = PyNone /\ from_pretrained
       THEN \E ok \in BOOLEAN : model' = IF ok THEN TheModel ELSE PyNone
       ELSE model' = model
    /\ UNCHANGED <<fcall, page_vars, loader, from_pretrained, fs, pc, file, response_format,
                   recording_timestamp, p, calls, r, pending, removal, response>>

\* how load_model ends once it has entered its try block (lines 154-172):
\* snapshot_download raises, from_pretrained raises, or from_pretrained
\* returns the model
LoadOutcomes == {"download failed", "load failed", "loaded"}

\* a call of load_model without the "model is None" condition: it loads
\* whenever parakeet_mlx is there
call_load_model_reload ==
    /\ loader.calls < MaxLoadCalls
    /\ IF from_pretrained
       THEN \E outcome \in LoadOutcomes, download \in BOOLEAN :
              /\ outcome = "download failed" => download
              /\ model' = IF outcome = "loaded" THEN TheModel ELSE PyNone
              /\ loader' = [calls |-> loader.calls + 1,
                            downloads |-> loader.downloads + (IF download THEN 1 ELSE 0),
                            invoked |-> loader.invoked
                                          + (IF outcome = "download failed" THEN 0 ELSE 1),
                            returned |-> loader.returned
                                          + (IF outcome = "loaded" THEN 1 ELSE 0)]
       ELSE /\ model' = model
            /\ loader' = [loader EXCEPT !.calls = @ + 1]
    /\ UNCHANGED <<from_pretrained, fs, pc, file, response_format,
                   recording_timestamp, p, calls, r, pending, removal, response,
                   fcall, page_vars>>

\* a call of load_model (lines 151-176) with its calls of snapshot_download
\* (lines 158-165, made when the model id names a repository) and of
\* from_pretrained (line 167) counted
call_load_model ==
    /\ loader.calls < MaxLoadCalls
    /\ IF model = PyNone /\ from_pretrained
       THEN \E outcome \in LoadOutcomes, download \in BOOLEAN :
              /\ outcome = "download failed" => download
              /\ model' = IF outcome = "loaded" THEN TheModel ELSE PyNone
              /\ loader' = [calls |-> loader.calls + 1,
                            downloads |-> loader.downloads + (IF download THEN 1 ELSE 0),
                            invoked |-> loader.invoked
                                          + (IF outcome = "download failed" THEN 0 ELSE 1),
                            returned |-> loader.returned
                                          + (IF outcome = "loaded" THEN 1 ELSE 0)]
       ELSE /\ model' = model
            /\ loader' = [loader EXCEPT !.calls = @ + 1]
    /\ UNCHANGED <<from_pretrained, fs, pc, file, response_format,
                   recording_timestamp, p, calls, r, pending, removal, response,
                   fcall, page_vars>>

(***************************************************************************)
(* create_transcription (lines 374-419), one action per step of a request. *)
(***************************************************************************)
\* create_transcription_begin with the filename check placed before the
\* model check
create_transcription_begin_filename_first(q) ==
    /\ pc[q] = "idle"
    /\ \E f \in Files, fmt \in FormatInputs, ts \in TimestampInputs :
        /\ file' = [file EXCEPT ![q] = f]
        /\ response_format' = [response_format EXCEPT ![q] = fmt]
        /\ recording_timestamp' = [recording_timestamp EXCEPT ![q] = ts]
        /\ IF ~f.filename THEN
               /\ response' = [response EXCEPT ![q] = HTTPException(400, "No filename provided")]
               /\ pc' = [pc EXCEPT ![q] = "done"]
           ELSE IF ~truthy(model) THEN
               /\ response' = [response EXCEPT ![q] = HTTPException(500, "Model not loaded")]
               /\ pc' = [pc EXCEPT ![q] = "done"]
           ELSE
               /\ pc' = [pc EXCEPT ![q] = "read"]
               /\ UNCHANGED response
    /\ UNCHANGED <<fcall, page_vars, loader, model, from_pretrained, fs, p, calls, r, pending, removal>>

\* lines 378-383: the request arrives with its form fields; the model check
\* and the filename check
create_transcription_begin(q) ==
    /\ pc[q] = "idle"
    /\ \E f \in Files, fmt \in FormatInputs, ts \in TimestampInputs :
        /\ file' = [file EXCEPT ![q] = f]
        /\ response_format' = [response_format EXCEPT ![q] = fmt]
        /\ recording_timestamp' = [recording_timestamp EXCEPT ![q] = ts]
        /\ IF ~truthy(model) THEN
               /\ response' = [response EXCEPT ![q] = HTTPException(500, "Model not loaded")]
               /\ pc' = [pc EXCEPT ![q] = "done"]
           ELSE IF ~f.filename THEN
               /\ response' = [response EXCEPT ![q] = HTTPException(400, "No filename provided")]
               /\ pc' = [pc EXCEPT ![q] = "done"]
           ELSE
               /\ pc' = [pc EXCEPT ![q] = "read"]
               /\ UNCHANGED response
    /\ UNCHANGED <<fcall, page_vars, loader, model, from_pretrained, fs, p, calls, r, pending, removal>>

\* create_transcription_read answering 413 instead of 400 to an oversized body
create_transcription_read_413(q) ==
    /\ pc[q] = "read"
    /\ LET file_content == file[q].content IN
       IF file_content.len > MAX_FILE_SIZE THEN
           /\ response' = [response EXCEPT ![q] = HTTPException(413, "File too large. Maximum size is 100MB")]
           /\ pc' = [pc EXCEPT ![q] = "done"]
           /\ UNCHANGED <<fs, p>>
       ELSE IF file_content.len = 0 THEN
           /\ response' = [response EXCEPT ![q] = HTTPException(400, "Empty file provided")]
           /\ pc' = [pc EXCEPT ![q] = "done"]
           /\ UNCHANGED <<fs, p>>
       ELSE
           \/ \E name \in {x \in Paths : fs[x] = Absent} :
                /\ fs' = [fs EXCEPT ![name] = EmptyBytes]
                /\ p' = [p EXCEPT ![q] = name]
                /\ pc' = [pc EXCEPT ![q] = "write"]
                /\ UNCHANGED response
           \/ /\ response' = [response EXCEPT ![q] = InternalServerError]
              /\ pc' = [pc EXCEPT ![q] = "done"]
              /\ UNCHANGED <<fs, p>>
    /\ UNCHANGED <<fcall, page_vars, loader, model, from_pretrained, file, response_format,
                   recording_timestamp, calls, r, pending, removal>>

\* create_transcription_read with ">=" in the size check: a body of exactly
\* MAX_FILE_SIZE bytes is rejected
create_transcription_read_ge(q) ==
    /\ pc[q] = "read"
    /\ LET file_content == file[q].content IN
       IF file_content.len >= MAX_FILE_SIZE THEN
           /\ response' = [response EXCEPT ![q] = HTTPException(400, "File too large. Maximum size is 100MB")]
           /\ pc' = [pc EXCEPT ![q] = "done"]
           /\ UNCHANGED <<fs, p>>
       ELSE IF file_content.len = 0 THEN
           /\ response' = [response EXCEPT ![q] = HTTPException(400, "Empty file provided")]
           /\ pc' = [pc EXCEPT ![q] = "done"]
           /\ UNCHANGED <<fs, p>>
       ELSE
           \/ \E name \in {x \in Paths : fs[x] = Absent} :
                /\ fs' = [fs EXCEPT ![name] = EmptyBytes]
                /\ p' = [p EXCEPT ![q] = name]
                /\ pc' = [pc EXCEPT ![q] = "write"]
                /\ UNCHANGED response
           \/ /\ response' = [response EXCEPT ![q] = InternalServerError]
              /\ pc' = [pc EXCEPT ![q] = "done"]
              /\ UNCHANGED <<fs, p>>
    /\ UNCHANGED <<fcall, page_vars, loader, model, from_pretrained, file, response_format,
                   recording_timestamp, calls, r, pending, removal>>

\* lines 386-396: read the body, check its size, create the scratch file;
\* NamedTemporaryFile creates a file under a name that does not exist yet,
\* or fails
create_transcription_read(q) ==
    /\ pc[q] = "read"
    /\ LET file_content == file[q].content IN
       IF file_content.len > MAX_FILE_SIZE THEN
           /\ response' = [response EXCEPT ![q] = HTTPException(400, "File too large. Maximum size is 100MB")]
           /\ pc' = [pc EXCEPT ![q] = "done"]
           /\ UNCHANGED <<fs, p>>
       ELSE IF file_content.len = 0 THEN
           /\ response' = [response EXCEPT ![q] = HTTPException(400, "Empty file provided")]
           /\ pc' = [pc EXCEPT ![q] = "done"]
           /\ UNCHANGED <<fs, p>>
       ELSE
           \/ \E name \in {x \in Paths : fs[x] = Absent} :
                /\ fs' = [fs EXCEPT ![name] = EmptyBytes]
                /\ p' = [p EXCEPT ![q] = name]
                /\ pc' = [pc EXCEPT ![q] = "write"]
                /\ UNCHANGED response
           \/ /\ response' = [response EXCEPT ![q] = InternalServerError]
              /\ pc' = [pc EXCEPT ![q] = "done"]
              /\ UNCHANGED <<fs, p>>
    /\ UNCHANGED <<fcall, page_vars, loader, model, from_pretrained, file, response_format,
                   recording_timestamp, calls, r, pending, removal>>

\* a proper, non-empty prefix of content: its first k bytes for some k with
\* 0 < k < content.len.  One value stands for all these lengths: the
\* program never reads a scratch file whose write has failed (the handler
\* goes from the failure to the finally block, which removes the file or
\* leaves it as it is), so no step depends on which of them the file holds
SomeOf(content) == [some_of |-> content]

\* what the file opened with "wb" holds when the write of content has failed
\* after k bytes, for every k: nothing when k is 0 (a failed open leaves the
\* new file empty, too), all of content when k is its length or more (the
\* failure then came with the close), and a proper prefix of it otherwise
Written(content, k) ==
    IF k <= 0 THEN EmptyBytes
    ELSE IF k >= content.len THEN content
    ELSE SomeOf(content)

\* what a failed write of content can leave in the file: the set of
\* Written(content, k) for all k in 0 .. content.len, written out (it has a
\* proper prefix in it when content has two bytes or more)
WriteFailures(content) ==
    {EmptyBytes, content} \cup (IF content.len > 1 THEN {SomeOf(content)} ELSE {})

\* create_transcription_write with the write placed outside the try block:
\* its failure leaves the handler without reaching the finally block
create_transcription_write_outside_try(q) ==
    /\ pc[q] = "write"
    /\ \/ /\ fs' = [fs EXCEPT ![p[q]] = file[q].content]
          /\ pc' = [pc EXCEPT ![q] = "transcribe"]
          /\ UNCHANGED <<pending, response>>
       \/ \E left \in WriteFailures(file[q].content) :
            /\ fs' = [fs EXCEPT ![p[q]] = left]
            /\ pending' = [pending EXCEPT ![q] = Raised("OSError", "write")]
            /\ response' = [response EXCEPT ![q] = InternalServerError]
            /\ pc' = [pc EXCEPT ![q] = "done"]
    /\ UNCHANGED <<fcall, page_vars, loader, model, from_pretrained, file, response_format,
                   recording_timestamp, p, calls, r, removal>>

\* create_transcription_write that goes on while the bytes are still in the
\* write buffer: the scratch file is empty when transcribe reads it
create_transcription_write_unflushed(q) ==
    /\ pc[q] = "write"
    /\ \/ /\ UNCHANGED fs
          /\ pc' = [pc EXCEPT ![q] = "transcribe"]
          /\ UNCHANGED pending
       \/ \E left \in WriteFailures(file[q].content) :
            /\ fs' = [fs EXCEPT ![p[q]] = left]
            /\ pending' = [pending EXCEPT ![q] = Raised("OSError", "write")]
            /\ pc' = [pc EXCEPT ![q] = "finally"]
    /\ UNCHANGED <<fcall, page_vars, loader, model, from_pretrained, file, response_format,
                   recording_timestamp, p, calls, r, removal, response>>

\* lines 398-399: open the scratch file, write the body, close the file.
\* Either the file then holds the whole body, or the file system fails the
\* write (a full disk, a file size limit, an I/O error) after any number of
\* bytes from none to all of them: the with-block raises OSError and the
\* file holds what was written before the failure
create_transcription_write(q) ==
    /\ pc[q] = "write"
    /\ \/ /\ fs' = [fs EXCEPT ![p[q]] = file[q].content]
          /\ pc' = [pc EXCEPT ![q] = "transcribe"]
          /\ UNCHANGED pending
       \/ \E left \in WriteFailures(file[q].content) :
            /\ fs' = [fs EXCEPT ![p[q]] = left]
            /\ pending' = [pending EXCEPT ![q] = Raised("OSError", "write")]
            /\ pc' = [pc EXCEPT ![q] = "finally"]
    /\ UNCHANGED <<fcall, page_vars, loader, model, from_pretrained, file, response_format,
                   recording_timestamp, p, calls, r, removal, response>>

\* one invocation of model.transcribe: the handle it was made on, the path
\* and language hint it was given, the file content it found there, and how
\* it ended
Call(path, language, outcome) ==
    [handle |-> model, path |-> path, language |-> language, seen |-> fs[path],
     outcome |-> outcome, value |-> PyNone]
\* the invocation that returned res
Returning(call, res) == [call EXCEPT !.value = res]

\* create_transcription_transcribe with "except Exception" in place of
\* "except TypeError": every failure of the first call is retried
create_transcription_transcribe_catch_all(q) ==
    /\ pc[q] = "transcribe"
    /\ \/ \E res \in RawResults :
            /\ calls' = [calls EXCEPT ![q] = Append(@, Returning(Call(p[q], "de", "return"), res))]
            /\ r' = [r EXCEPT ![q] = res]
            /\ pc' = [pc EXCEPT ![q] = "normalize"]
       \/ \E e \in TranscribeErrors :
            /\ calls' = [calls EXCEPT ![q] = Append(@, Call(p[q], "de", e))]
            /\ pc' = [pc EXCEPT ![q] = "retry"]
            /\ UNCHANGED r
    /\ UNCHANGED <<fcall, page_vars, loader, model, from_pretrained, fs, file, response_format,
                   recording_timestamp, p, pending, removal, response>>

\* create_transcription_transcribe without the except clause: a TypeError of
\* the first call propagates like any other failure
create_transcription_transcribe_no_except(q) ==
    /\ pc[q] = "transcribe"
    /\ \/ \E res \in RawResults :
            /\ calls' = [calls EXCEPT ![q] = Append(@, Returning(Call(p[q], "de", "return"), res))]
            /\ r' = [r EXCEPT ![q] = res]
            /\ pc' = [pc EXCEPT ![q] = "normalize"]
            /\ UNCHANGED pending
       \/ \E e \in TranscribeErrors :
            /\ calls' = [calls EXCEPT ![q] = Append(@, Call(p[q], "de", e))]
            /\ pc' = [pc EXCEPT ![q] = "finally"]
            /\ pending' = [pending EXCEPT ![q] = Raised(e, "transcribe")]
            /\ UNCHANGED r
    /\ UNCHANGED <<fcall, page_vars, loader, model, from_pretrained, fs, file, response_format,
                   recording_timestamp, p, removal, response>>

\* line 401: r = model.transcribe(p, language="de")
create_transcription_transcribe(q) ==
    /\ pc[q] = "transcribe"
    /\ \/ \E res \in RawResults :
            /\ calls' = [calls EXCEPT ![q] = Append(@, Returning(Call(p[q], "de", "return"), res))]
            /\ r' = [r EXCEPT ![q] = res]
            /\ pc' = [pc EXCEPT ![q] = "normalize"]
            /\ UNCHANGED pending
       \/ \E e \in TranscribeErrors :
            /\ calls' = [calls EXCEPT ![q] = Append(@, Call(p[q], "de", e))]
            /\ IF e = "TypeError"
               THEN /\ pc' = [pc EXCEPT ![q] = "retry"]
                    /\ UNCHANGED pending
               ELSE /\ pc' = [pc EXCEPT ![q] = "finally"]
                    /\ pending' = [pending EXCEPT ![q] = Raised(e, "transcribe")]
            /\ UNCHANGED r
    /\ UNCHANGED <<fcall, page_vars, loader, model, from_pretrained, fs, file, response_format,
                   recording_timestamp, p, removal, response>>

\* create_transcription_retry that tries again when the retry signals
\* TypeError too
create_transcription_retry_again(q) ==
    /\ pc[q] = "retry"
    /\ \/ \E res \in RawResults :
            /\ calls' = [calls EXCEPT ![q] = Append(@, Returning(Call(p[q], "", "return"), res))]
            /\ r' = [r EXCEPT ![q] = res]
            /\ pc' = [pc EXCEPT ![q] = "normalize"]
            /\ UNCHANGED pending
       \/ \E e \in TranscribeErrors :
            /\ calls' = [calls EXCEPT ![q] = Append(@, Call(p[q], "", e))]
            /\ IF e = "TypeError" /\ Len(calls[q]) < 3
               THEN /\ UNCHANGED pc
                    /\ UNCHANGED pending
               ELSE /\ pc' = [pc EXCEPT ![q] = "finally"]
                    /\ pending' = [pending EXCEPT ![q] = Raised(e, "retry")]
            /\ UNCHANGED r
    /\ UNCHANGED <<fcall, page_vars, loader, model, from_pretrained, fs, file, response_format,
                   recording_timestamp, p, removal, response>>

\* create_transcription_retry that does not assign the retry's result to r
create_transcription_retry_result_dropped(q) ==
    /\ pc[q] = "retry"
    /\ \/ \E res \in RawResults :
            /\ calls' = [calls EXCEPT ![q] = Append(@, Returning(Call(p[q], "", "return"), res))]
            /\ UNCHANGED r
            /\ pc' = [pc EXCEPT ![q] = "normalize"]
            /\ UNCHANGED pending
       \/ \E e \in TranscribeErrors :
            /\ calls' = [calls EXCEPT ![q] = Append(@, Call(p[q], "", e))]
            /\ pc' = [pc EXCEPT ![q] = "finally"]
            /\ pending' = [pending EXCEPT ![q] = Raised(e, "retry")]
            /\ UNCHANGED r
    /\ UNCHANGED <<fcall, page_vars, loader, model, from_pretrained, fs, file, response_format,
                   recording_timestamp, p, removal, response>>

\* lines 402-403: except TypeError: r = model.transcribe(p)
create_transcription_retry(q) ==
    /\ pc[q] = "retry"
    /\ \/ \E res \in RawResults :
            /\ calls' = [calls EXCEPT ![q] = Append(@, Returning(Call(p[q], "", "return"), res))]
            /\ r' = [r EXCEPT ![q] = res]
            /\ pc' = [pc EXCEPT ![q] = "normalize"]
            /\ UNCHANGED pending
       \/ \E e \in TranscribeErrors :
            /\ calls' = [calls EXCEPT ![q] = Append(@, Call(p[q], "", e))]
            /\ pc' = [pc EXCEPT ![q] = "finally"]
            /\ pending' = [pending EXCEPT ![q] = Raised(e, "retry")]
            /\ UNCHANGED r
    /\ UNCHANGED <<fcall, page_vars, loader, model, from_pretrained, fs, file, response_format,
                   recording_timestamp, p, removal, response>>

\* Normalize that does not pass recording_timestamp on to the response
Normalize_drop_timestamp(raw, fmt, ts) ==
    LET et == extract_text(raw)
        t == IF IsRaise(et) THEN et ELSE clean_text(et)
        segments == extract_segments(raw)
    IN  IF IsRaise(t) THEN Raised(t.v, "normalize")
        ELSE IF IsRaise(segments) THEN Raised(segments.v, "normalize")
        ELSE IF fmt = Str(Chars_text) THEN Return(t)
        ELSE Return(TranscriptionResponse(t, PyNone, segments))

\* Normalize that leaves out clean_text (t = extract_text(r)); the response
\* model then rejects a text that is not a str
Normalize_unclean(raw, fmt, ts) ==
    LET et == extract_text(raw)
        t == IF IsRaise(et) THEN et
             ELSE IF et.kind # "str" THEN Raise("ValidationError") ELSE et
        segments == extract_segments(raw)
    IN  IF IsRaise(t) THEN Raised(t.v, "normalize")
        ELSE IF IsRaise(segments) THEN Raised(segments.v, "normalize")
        ELSE IF fmt = Str(Chars_text) THEN Return(t)
        ELSE Return(TranscriptionResponse(t, ts, segments))

\* lines 404-414: what the try block ends with once r is known
Normalize(raw, fmt, ts) ==
    LET et == extract_text(raw)
        t == IF IsRaise(et) THEN et ELSE clean_text(et)
        segments == extract_segments(raw)
    IN  IF IsRaise(t) THEN Raised(t.v, "normalize")
        ELSE IF IsRaise(segments) THEN Raised(segments.v, "normalize")
        ELSE IF fmt = Str(Chars_text) THEN Return(t)
        ELSE Return(TranscriptionResponse(t, ts, segments))

\* create_transcription_normalize with recording_timestamp kept in a
\* variable of the module that every request assigns: the record gets the
\* value of any request that has begun
create_transcription_normalize_shared_timestamp(q) ==
    /\ pc[q] = "normalize"
    /\ \E o \in DOMAIN pc :
         /\ pc[o] # "idle"
         /\ pending' = [pending EXCEPT ![q] = Normalize(r[q], FormatOf(q), TimestampOf(o))]
    /\ pc' = [pc EXCEPT ![q] = "finally"]
    /\ UNCHANGED <<fcall, page_vars, loader, model, from_pretrained, fs, file, response_format,
                   recording_timestamp, p, calls, r, removal, response>>

\* lines 404-414 as a step of the request
create_transcription_normalize(q) ==
    /\ pc[q] = "normalize"
    /\ pending' = [pending EXCEPT ![q] = Normalize(r[q], FormatOf(q), TimestampOf(q))]
    /\ pc' = [pc EXCEPT ![q] = "finally"]
    /\ UNCHANGED <<fcall, page_vars, loader, model, from_pretrained, fs, file, response_format,
                   recording_timestamp, p, calls, r, removal, response>>

\* lines 415-419: finally: os.remove(p), any exception of it swallowed;
\* then the return value or the exception of the try block leaves the handler
create_transcription_finally(q) ==
    /\ pc[q] = "finally"
    /\ \/ /\ fs[p[q]] # Absent
          /\ fs' = [fs EXCEPT ![p[q]] = Absent]
          /\ removal' = [removal EXCEPT ![q] = "removed"]
       \/ /\ removal' = [removal EXCEPT ![q] = "failed"]
          /\ UNCHANGED fs
    /\ response' = [response EXCEPT ![q] = Respond(pending[q])]
    /\ pc' = [pc EXCEPT ![q] = "done"]
    /\ UNCHANGED <<fcall, page_vars, loader, model, from_pretrained, file, response_format,
                   recording_timestamp, p, calls, r, pending>>

Next ==
    \/ load_model
    \/ \E q \in Reqs : create_transcription_begin(q)
    \/ \E q \in Reqs : create_transcription_read(q)
    \/ \E q \in Reqs : create_transcription_write(q)
    \/ \E q \in Reqs : create_transcription_transcribe(q)
    \/ \E q \in Reqs : create_transcription_retry(q)
    \/ \E q \in Reqs : create_transcription_normalize(q)
    \/ \E q \in Reqs : create_transcription_finally(q)

Spec == Init /\ [][Next]_vars

(***************************************************************************)
(* The same server handling several requests at once.  The steps of        *)
(* different requests interleave freely, which covers both one event loop  *)
(* (a switch at "await file.read()") and several worker processes sharing  *)
(* the scratch directory.                                                  *)
(***************************************************************************)
Concurrent == 1..NumConcurrent

InitConcurrent ==
    /\ model = PyNone
    /\ from_pretrained \in BOOLEAN
    /\ fs = [x \in Paths |-> Absent]
    /\ pc = [q \in Concurrent |-> "idle"]
    /\ file = [q \in Concurrent |-> [filename |-> FALSE, content |-> EmptyBytes]]
    /\ response_format = [q \in Concurrent |-> Omitted]
    /\ recording_timestamp = [q \in Concurrent |-> Omitted]
    /\ p = [q \in Concurrent |-> NoPath]
    /\ calls = [q \in Concurrent |-> << >>]
    /\ r = [q \in Concurrent |-> PyNone]
    /\ pending = [q \in Concurrent |-> NoPending]
    /\ removal = [q \in Concurrent |-> "none"]
    /\ response = [q \in Concurrent |-> NoResponse]
    /\ fcall = NoCall
    /\ index_html = [x \in Places |-> FALSE]
    /\ root_response = NoResponse
    /\ root_sending = PyNone
    /\ root_calls = 0
    /\ health_response = NoResponse
    /\ loader = NoLoads

NextConcurrent ==
    \/ load_model
    \/ \E q \in Concurrent : create_transcription_begin(q)
    \/ \E q \in Concurrent : create_transcription_read(q)
    \/ \E q \in Concurrent : create_transcription_write(q)
    \/ \E q \in Concurrent : create_transcription_transcribe(q)
    \/ \E q \in Concurrent : create_transcription_retry(q)
    \/ \E q \in Concurrent : create_transcription_normalize(q)
    \/ \E q \in Concurrent : create_transcription_finally(q)

SpecConcurrent == InitConcurrent /\ [][NextConcurrent]_vars

(***************************************************************************)
(* Direct calls of extract_text, extract_segments and clean_text, as the   *)
(* handler (lines 404-405) and the unit tests make them.                   *)
(***************************************************************************)
\* sequences over S of length 0..n
SeqsUpTo(S, n) == UNION {[1..k -> S] : k \in 0..n}

\* values of a segment's text: empty, a word, and a value that is not a str
SegTexts == {Str(<< >>), Str(<<"a">>), Num(7)}
\* the <<name, value>> pairs of a segment: a word with both timing fields,
\* each text value without timing, an empty text with start only, an end
\* without text, and no field at all
SegFields ==
    {<< <<"text", Str(<<"a">>)>>, <<"start", Num(0)>>, <<"end", Num(1)>> >>,
     << <<"text", Str(<< >>)>>, <<"start", Num(0)>> >>,
     << <<"end", Num(1)>> >>,
     << >>}
        \cup {<< <<"text", x>> >> : x \in SegTexts}
\* raw segment elements: attribute objects, mappings, a bare string, None
SegElems ==
    {Obj(f) : f \in SegFields} \cup {Dict(f) : f \in SegFields}
        \cup {Str(<<"s">>), PyNone}
\* values of the segments field: None, a number, a single segment given
\* as a mapping where the sequence should be, a string, a sequence of
\* segments
SegmentsValues ==
    {PyNone, Num(5), Dict(<< <<"text", Str(<<"q">>)>>, <<"start", Num(0)>> >>),
     Str(<<"a", "b">>)}
        \cup {List(l) : l \in SeqsUpTo(SegElems, MaxSegs)}
\* the <<name, value>> pairs of a raw result: text and segments, each there
\* or not
RawFields ==
    {t \o sg :
        t \in {<< >>} \cup {<< <<"text", x>> >> : x \in {Str(<<"x">>), Str(<< >>), PyNone}},
        sg \in {<< >>} \cup {<< <<"segments", x>> >> : x \in SegmentsValues}}
\* strings whose repr is more than the string between single quotes
ReprStrings ==
    {Str(<<"i", "t", "'", "s">>), Str(<<"'", "\"">>), Str(<<"a", "\t", "\\">>),
     Str(<<"\f", "\\xa0">>)}
\* raw results: attribute objects, mappings, mappings with another key,
\* a list of strings, None and primitives
RawInputs ==
    {Obj(f) : f \in RawFields} \cup {Dict(f) : f \in RawFields}
        \cup {Dict(<< <<"other", x>> >>) : x \in {Str(<<"v">>)} \cup ReprStrings}
        \cup {List(<<x, y>>) : x, y \in ReprStrings}
        \cup {PyNone, Num(123), Str(<<"h", "i">>)}

\* the pieces texts are made of: the marker in two spellings, the two halves
\* of a marker, white space (a space, a tab, a no-break space) and a letter
Tokens ==
    {<<"<", "u", "n", "k", ">">>, <<"<", "U", "N", "k", ">">>, <<"<", "u", "n">>,
     <<"k", ">">>, <<" ">>, <<"\t">>, <<"\\xa0">>, <<"a">>}
RECURSIVE Concat(_)
Concat(ss) == IF Len(ss) = 0 THEN << >> ELSE ss[1] \o Concat(Tail(ss))
TextInputs == {Str(Concat(ts)) : ts \in SeqsUpTo(Tokens, MaxTokens)}

InitFunctions ==
    /\ model = PyNone
    /\ from_pretrained \in BOOLEAN
    /\ fs = [x \in Paths |-> Absent]
    /\ pc = [q \in Reqs |-> "idle"]
    /\ file = [q \in Reqs |-> [filename |-> FALSE, content |-> EmptyBytes]]
    /\ response_format = [q \in Reqs |-> Omitted]
    /\ recording_timestamp = [q \in Reqs |-> Omitted]
    /\ p = [q \in Reqs |-> NoPath]
    /\ calls = [q \in Reqs |-> << >>]
    /\ r = [q \in Reqs |-> PyNone]
    /\ pending = [q \in Reqs |-> NoPending]
    /\ removal = [q \in Reqs |-> "none"]
    /\ response = [q \in Reqs |-> NoResponse]
    /\ \E x \in RawInputs \cup TextInputs : fcall = FCall("", x, PyNone, PyNone)
    /\ index_html = [x \in Places |-> FALSE]
    /\ root_response = NoResponse
    /\ root_sending = PyNone
    /\ root_calls = 0
    /\ health_response = NoResponse
    /\ loader = NoLoads

\* extract_text(r) on a raw result
call_extract_text ==
    /\ fcall.fn = "" /\ fcall.arg \in RawInputs
    /\ fcall' = FCall("extract_text", fcall.arg, PyNone, extract_text(fcall.arg))
    /\ UNCHANGED <<handler_vars, page_vars, loader>>

\* extract_segments(r) on a raw result
call_extract_segments ==
    /\ fcall.fn = "" /\ fcall.arg \in RawInputs
    /\ fcall' = FCall("extract_segments", fcall.arg, PyNone, extract_segments(fcall.arg))
    /\ UNCHANGED <<handler_vars, page_vars, loader>>

\* clean_text(text) on a text
call_clean_text ==
    /\ fcall.fn = "" /\ fcall.arg \in TextInputs
    /\ fcall' = FCall("clean_text", fcall.arg, PyNone, clean_text(fcall.arg))
    /\ UNCHANGED <<handler_vars, page_vars, loader>>

\* clean_text(clean_text(text)): clean_text on the result of clean_text
call_clean_text_again ==
    /\ fcall.fn = "clean_text"
    /\ fcall' = FCall("clean_text(clean_text)", fcall.arg, fcall.out, clean_text(fcall.out))
    /\ UNCHANGED <<handler_vars, page_vars, loader>>

NextFunctions ==
    \/ call_extract_text
    \/ call_extract_segments
    \/ call_clean_text
    \/ call_clean_text_again

SpecFunctions == InitFunctions /\ [][NextFunctions]_vars

(***************************************************************************)
(* GET / (lines 268-290).                                                  *)
(***************************************************************************)
\* the first candidate path at which an index.html exists, or None
get_index_path ==
    IF \E i \in DOMAIN possible_paths : index_html[possible_paths[i]]
    THEN LET i == CHOOSE i \in DOMAIN possible_paths :
                      /\ index_html[possible_paths[i]]
                      /\ \A j \in 1..(i - 1) : ~index_html[possible_paths[j]]
         IN  Str(possible_paths[i])
    ELSE PyNone

\* FileResponse(index_path, media_type="text/html")
FileResponse(path) ==
    [status |-> 200, media_type |-> "text/html", body |-> [kind |-> "file", v |-> path]]
\* the dict {"status": ...} a handler returns, sent as JSON
StatusBody(status) == [kind |-> "status", status |-> status]

\* root that reports whether parakeet_mlx could be imported instead of
\* whether a model is loaded
root_reports_import ==
    /\ root_calls < MaxRootCalls
    /\ root_sending = PyNone
    /\ root_calls' = root_calls + 1
    /\ LET index_path == get_index_path IN
       IF truthy(index_path)
       THEN /\ root_sending' = index_path
            /\ root_response' = NoResponse
       ELSE /\ root_sending' = PyNone
            /\ root_response' =
                  JSONResponse(200, StatusBody(IF from_pretrained THEN "ok" ELSE "error"))
    /\ UNCHANGED <<handler_vars, fcall, loader, index_html, health_response>>

\* lines 284-290: the handler of a GET / that comes when the one before it
\* has been answered. It returns a FileResponse for the path
\* get_index_path found, which is sent after the handler has returned, or
\* the status dict, which does not depend on the disk any more
root ==
    /\ root_calls < MaxRootCalls
    /\ root_sending = PyNone
    /\ root_calls' = root_calls + 1
    /\ LET index_path == get_index_path IN
       IF truthy(index_path)
       THEN /\ root_sending' = index_path
            /\ root_response' = NoResponse
       ELSE /\ root_sending' = PyNone
            /\ root_response' =
                  JSONResponse(200, StatusBody(IF truthy(model) THEN "ok" ELSE "error"))
    /\ UNCHANGED <<handler_vars, fcall, loader, index_html, health_response>>

\* line 288, the FileResponse being sent: it looks the file up (os.stat)
\* when it is sent, not when root made it; a file that is still there is
\* announced with status 200 and media type text/html, a file that is gone
\* by then makes it raise RuntimeError, which is answered 500
root_send ==
    /\ root_sending # PyNone
    /\ root_response' = IF index_html[root_sending.v]
                        THEN FileResponse(root_sending.v)
                        ELSE InternalServerError
    /\ root_sending' = PyNone
    /\ UNCHANGED <<handler_vars, fcall, loader, index_html, root_calls, health_response>>

\* the environment puts an index.html into one of the places or removes it
\* (os.path.exists at line 280 sees the disk as it is at the request)
index_html_changes ==
    /\ \E x \in Places : index_html' = [index_html EXCEPT ![x] = ~@]
    /\ UNCHANGED <<handler_vars, fcall, loader, root_response, root_sending,
                   root_calls, health_response>>

(***************************************************************************)
(* GET /health (lines 292-313).                                            *)
(***************************************************************************)
\* the dict health_status (lines 295-300, 305-306); python_version and
\* system do not depend on the state and are left out; disk_space_gb is
\* there when shutil.disk_usage did not raise
HealthBody(status, model_loaded, disk) ==
    [kind |-> "health", status |-> status, model_loaded |-> model_loaded,
     disk_space_gb |-> disk]

\* lines 292-313: status_code is computed at line 312 and not used; the
\* dict is returned and sent as JSON with the route's default status 200
health_check ==
    /\ \E disk \in BOOLEAN :
         LET health_status ==
                 HealthBody(IF truthy(model) THEN "healthy" ELSE "unhealthy",
                            model # PyNone, disk)
             status_code == IF truthy(model) THEN 200 ELSE 503
         IN  health_response' = JSONResponse(200, health_status)
    /\ UNCHANGED <<handler_vars, fcall, loader, index_html, root_response,
                   root_sending, root_calls>>

NextPages ==
    \/ call_load_model
    \/ root
    \/ root_send
    \/ index_html_changes
    \/ health_check

SpecPages == Init /\ [][NextPages]_vars

(***************************************************************************)
(* Properties of the request handler.                                      *)
(***************************************************************************)
Done(q) == pc[q] = "done"
\* the request created a scratch file
Created(q) == p[q] # NoPath
\* the try block of the request returned a value (a transcript was produced)
Returned(q) == pending[q].kind = "return"
\* the cleaned transcript and the segments of the request's raw result
\* (tabulated over the values r takes, so that they are computed once)
CleanedText ==
    [x \in RawResults \cup {PyNone} |->
        LET et == extract_text(x) IN IF IsRaise(et) THEN et ELSE clean_text(et)]
Segments == [x \in RawResults \cup {PyNone} |-> extract_segments(x)]
TextOf(q) == CleanedText[r[q]]
SegmentsOf(q) == Segments[r[q]]
\* the 200 JSON response carrying the transcript of the request
JsonTranscript(q) ==
    JSONResponse(200, TranscriptionResponse(TextOf(q), TimestampOf(q), SegmentsOf(q)))
\* the 200 plain-text response carrying the cleaned text of the request
PlainTranscript(q) ==
    [status |-> 200, media_type |-> "text/plain", body |-> TextOf(q)]
IsError(resp) == resp.status >= 400
\* an error response body carries no transcript data
NoTranscriptIn(resp) == resp.body.kind \in {"detail", "plain"}

\* C1: a request that created a scratch file has attempted to delete it by
\* the time it completes, on every exit path; and when the deletion
\* succeeded the file does not exist at the moment the request completes.
C1_CleanupOnEveryExit ==
    /\ [](\A q \in Reqs : Done(q) /\ Created(q) => removal[q] # "none")
    /\ [][\A q \in Reqs :
            pc[q] # "done" /\ pc'[q] = "done" /\ removal'[q] = "removed"
                => fs'[p[q]] = Absent]_vars

\* a request whose scratch-file write failed has completed with its scratch
\* file removed
C1_Witness ==
    \E q \in Reqs :
        /\ Done(q) /\ Created(q)
        /\ pending[q] = Raised("OSError", "write")
        /\ removal[q] = "removed" /\ fs[p[q]] = Absent

\* C2: when the first transcribe call signals TypeError and the call without
\* the language hint returns, the request answers 200 with the transcript of
\* the second call's result, after exactly two invocations: with the hint,
\* then without it.  (Stated for the requests whose normalisation produced
\* a transcript of that result.)
C2_RetryAnswers200 ==
    \A q \in Reqs :
        Done(q) /\ Len(calls[q]) >= 2 /\ Returned(q)
                /\ calls[q][1].outcome = "TypeError" /\ calls[q][2].outcome = "return"
            => /\ Len(calls[q]) = 2
               /\ calls[q][1].language = "de" /\ calls[q][2].language = ""
               /\ (response[q] = JsonTranscript(q) \/ response[q] = PlainTranscript(q))

\* C3: when the first transcribe call fails with anything but TypeError, no
\* second invocation is made and the request ends with a 500 response that
\* carries no transcript.
C3_OtherFailureNotRetried ==
    \A q \in Reqs :
        Len(calls[q]) >= 1 /\ calls[q][1].outcome \notin {"return", "TypeError"}
            => /\ Len(calls[q]) = 1
               /\ pc[q] \in {"finally", "done"}
               /\ Done(q) => response[q].status = 500 /\ NoTranscriptIn(response[q])

C3_Witness ==
    \E q \in Reqs :
        Done(q) /\ Len(calls[q]) = 1 /\ calls[q][1].outcome = "Exception"
                /\ response[q].status = 500

\* the request's error response was caused by a TypeError of a transcribe call
CausedByTypeError(q) ==
    /\ IsError(response[q])
    /\ pending[q].kind = "raise" /\ pending[q].v = "TypeError"
    /\ pending[q].site \in {"transcribe", "retry"}

\* C4 as stated: no error response is ever caused by a TypeError of the
\* transcribe capability, not even one signalled by the retry.
C4_TypeErrorNeverSurfaced ==
    \A q \in Reqs : Done(q) => ~CausedByTypeError(q)

\* C4 as amended: a TypeError signalled by the first call (with the language
\* hint) is never surfaced, it leads to exactly one retry without the hint;
\* a TypeError signalled by the retry is surfaced as a 500 response.
C4_FirstTypeErrorAbsorbed ==
    \A q \in Reqs :
        /\ ~(pending[q].kind = "raise" /\ pending[q].site = "transcribe"
                /\ pending[q].v = "TypeError")
        /\ Len(calls[q]) >= 1 /\ calls[q][1].outcome = "TypeError"
            => \/ pc[q] = "retry" /\ Len(calls[q]) = 1
               \/ Len(calls[q]) = 2 /\ calls[q][2].language = ""
        /\ Done(q) /\ Len(calls[q]) = 2 /\ calls[q][2].outcome = "TypeError"
            => /\ pending[q] = Raised("TypeError", "retry")
               /\ response[q] = InternalServerError

C4_Witness ==
    \E q \in Reqs :
        Done(q) /\ Len(calls[q]) = 2 /\ calls[q][1].outcome = "TypeError"
                /\ calls[q][2].outcome = "TypeError" /\ response[q].status = 500

\* C5: a request handled while no model is loaded is answered 500 at once,
\* whatever its upload: no scratch file is created, transcribe is not invoked.
C5_NoModelFailsFirst ==
    /\ [][\A q \in Reqs :
            pc[q] = "idle" /\ pc'[q] # "idle" /\ ~truthy(model)
                => /\ pc'[q] = "done"
                   /\ response'[q] = HTTPException(500, "Model not loaded")
                   /\ fs' = fs /\ p'[q] = NoPath /\ calls'[q] = << >>]_vars
    /\ [](\A q \in Reqs :
            response[q] = HTTPException(500, "Model not loaded")
                => Done(q) /\ ~Created(q) /\ calls[q] = << >> /\ removal[q] = "none")

\* a request without filename and with an oversized body met no model
C5_Witness ==
    \E q \in Reqs :
        /\ response[q] = HTTPException(500, "Model not loaded")
        /\ ~file[q].filename /\ file[q].content.len > MAX_FILE_SIZE

\* C6: a successful transcription is answered 200 text/plain with the cleaned
\* transcript as body exactly when response_format is the literal "text", and
\* with the JSON record {text, recording_timestamp, segments} otherwise.
C6_TextFormatIsPlainText ==
    \A q \in Reqs :
        Done(q) /\ Returned(q)
            => response[q] = IF response_format[q] = Str(Chars_text)
                             THEN PlainTranscript(q) ELSE JsonTranscript(q)

\* C7: in every JSON response recording_timestamp is the form field of the
\* same request as sent, and null when the request sent none, whatever the
\* request uploaded, whatever transcribe returned for it and whatever the
\* requests handled at the same time sent.
C7_TimestampEchoed ==
    \A q \in Concurrent :
        Done(q) /\ response[q].status = 200 /\ response[q].body.kind = "TranscriptionResponse"
            => response[q].body.recording_timestamp =
                   IF recording_timestamp[q] = Omitted THEN PyNone
                   ELSE recording_timestamp[q]

\* two requests were handled at once, one that sent a recording_timestamp
\* and one that sent none, with different uploads; each has its own value in
\* its JSON response
C7_Witness ==
    \E q1, q2 \in Concurrent :
        /\ Done(q1) /\ response[q1].status = 200
        /\ Done(q2) /\ response[q2].status = 200
        /\ file[q1].content # file[q2].content
        /\ recording_timestamp[q1] # Omitted /\ recording_timestamp[q2] = Omitted
        /\ response[q1].body.recording_timestamp = recording_timestamp[q1]
        /\ response[q2].body.recording_timestamp = PyNone

\* upload validation rejects the request's file (lines 382-393)
UploadRejected(q) ==
    \/ ~file[q].filename
    \/ file[q].content.len > MAX_FILE_SIZE
    \/ file[q].content.len = 0

\* C8 as stated: the only error responses of a request that supplies a file
\* (here: one with a filename and a body that is not empty) are 500 responses
\* caused by a missing model or by a transcribe call that raised.
C8_OnlyTwoErrorKinds ==
    \A q \in Reqs :
        Done(q) /\ IsError(response[q]) /\ file[q].filename /\ file[q].content.len > 0
            => /\ response[q].status = 500
               /\ \/ response[q] = HTTPException(500, "Model not loaded")
                  \/ pending[q].kind = "raise" /\ pending[q].site \in {"transcribe", "retry"}

\* C8 as amended: the error responses of a request that supplies a file are
\* not only the two 500 responses of the claim.  The handler also rejects an
\* upload with a 400 response, an upload larger than MAX_FILE_SIZE for one,
\* and does so before it creates a scratch file or calls transcribe.  Every
\* error response is one of three: the 500 "Model not loaded", answered
\* before anything else is done; such a 400 rejection; or the plain 500
\* Internal Server Error, which is what a request is answered with when a
\* transcribe call raises and the exception leaves the handler.
C8_ErrorResponses ==
    \A q \in Reqs :
        /\ Done(q) /\ IsError(response[q]) =>
              \/ /\ response[q] = HTTPException(500, "Model not loaded")
                 /\ ~Created(q) /\ calls[q] = << >>
              \/ /\ response[q].status = 400 /\ response[q].body.kind = "detail"
                 /\ ~Created(q) /\ calls[q] = << >>
              \/ response[q] = InternalServerError
        /\ (/\ Done(q) /\ file[q].content.len > MAX_FILE_SIZE
            /\ response[q] # HTTPException(500, "Model not loaded"))
              => response[q].status = 400
        /\ (/\ Done(q) /\ pending[q].kind = "raise"
            /\ pending[q].site \in {"transcribe", "retry"})
              => /\ response[q] = InternalServerError
                 /\ calls[q][Len(calls[q])].outcome = pending[q].v

\* an oversized upload was answered 400
C8_Witness ==
    \E q \in Reqs :
        /\ Done(q) /\ response[q].status = 400
        /\ file[q].filename /\ file[q].content.len > MAX_FILE_SIZE

\* C9: when the deletion of the scratch file fails, a request whose
\* processing produced a transcript is still answered 200 with exactly that
\* transcript, and a request whose processing raised is still answered with
\* that error.
C9_DeletionFailureHarmless ==
    \A q \in Reqs :
        Done(q) /\ removal[q] = "failed"
            => /\ Returned(q) => (response[q] = JsonTranscript(q) \/ response[q] = PlainTranscript(q))
               /\ pending[q].kind = "raise" => response[q] = InternalServerError

\* C10: a completed request carries either a success response with the whole
\* normalised transcript (cleaned text, and segments that are None or a
\* non-empty list) or an error status without any transcript data.
C10_NoPartialResponse ==
    \A q \in Reqs :
        Done(q) =>
            \/ /\ response[q].status = 200
               /\ (response[q] = JsonTranscript(q) \/ response[q] = PlainTranscript(q))
               /\ TextOf(q).kind = "str"
               /\ SegmentsOf(q) = PyNone \/ (SegmentsOf(q).kind = "list" /\ truthy(SegmentsOf(q)))
            \/ /\ IsError(response[q])
               /\ NoTranscriptIn(response[q])

\* a success response whose text differs from the uncleaned text of the result
C10_Witness ==
    \E q \in Reqs :
        /\ Done(q) /\ response[q] = JsonTranscript(q)
        /\ r[q] = RawObjSegments
        /\ response[q].body.text # extract_text(r[q])
        /\ response[q].body.segments.kind = "list"

\* C12: a request handled while the model handle is unset is answered 500
\* "Model not loaded"; a request handled once the handle is set passes that
\* check; a handle that is set stays set; and every transcribe call of every
\* request was made on a set handle, however load_model interleaves with the
\* steps of the request.
C12_NoTranscribeBeforeLoad ==
    /\ [][\A q \in Reqs :
            pc[q] = "idle" /\ pc'[q] # "idle"
                => IF model = PyNone
                   THEN pc'[q] = "done" /\ response'[q] = HTTPException(500, "Model not loaded")
                   ELSE response'[q] # HTTPException(500, "Model not loaded")]_vars
    /\ [][model # PyNone => model' = model]_vars
    /\ [](\A q \in Reqs :
            /\ pc[q] \in {"read", "write", "transcribe", "retry", "normalize"} => model # PyNone
            /\ \A i \in DOMAIN calls[q] : calls[q][i].handle # PyNone)

\* a request was turned away before the load finished, and the model is
\* loaded now
C12_Witness ==
    \E q \in Reqs :
        /\ response[q] = HTTPException(500, "Model not loaded")
        /\ model = TheModel

\* C18: a request with a filename and a zero-byte upload that met a loaded
\* model was passed to transcribe, and is answered 200 with the JSON record
\* of the cleaned text when transcribe returned and JSON was asked for.
C18_EmptyUploadTranscribed ==
    \A q \in Reqs :
        (/\ Done(q) /\ file[q].filename /\ file[q].content.len = 0
         /\ response[q] # HTTPException(500, "Model not loaded"))
            => /\ Len(calls[q]) >= 1
               /\ Returned(q) /\ FormatOf(q) # Str(Chars_text)
                    => response[q] = JsonTranscript(q)

\* C25: a request invokes transcribe at most twice; once only when the first
\* call returned; a second time only after the first signalled TypeError;
\* and whatever the second call does, no third call follows.
C25_AtMostOneRetry ==
    \A q \in Reqs :
        /\ Len(calls[q]) <= 2
        /\ Len(calls[q]) >= 1 /\ calls[q][1].outcome = "return" => Len(calls[q]) = 1
        /\ Len(calls[q]) = 2 => calls[q][1].outcome = "TypeError"
        /\ Len(calls[q]) = 2 /\ calls[q][2].outcome # "return"
              => pc[q] \in {"finally", "done"} /\ pending[q] = Raised(calls[q][2].outcome, "retry")

\* a request whose first call returned has completed after one invocation
C25_Witness ==
    \E q \in Reqs :
        /\ Done(q) /\ Len(calls[q]) = 1 /\ calls[q][1].outcome = "return"
        /\ response[q].status = 200

\* C26: the text and the segments of a JSON success response are
\* clean_text(extract_text(v)) and extract_segments(v) of one value v, the
\* one the request's last transcribe invocation returned.
C26_ResponseFromLastResult ==
    \A q \in Reqs :
        Done(q) /\ response[q].status = 200 /\ response[q].body.kind = "TranscriptionResponse"
            => /\ Len(calls[q]) >= 1
               /\ LET last == calls[q][Len(calls[q])] IN
                  /\ last.outcome = "return"
                  /\ response[q].body.text = CleanedText[last.value]
                  /\ response[q].body.segments = Segments[last.value]
               /\ \A i \in 1..(Len(calls[q]) - 1) : calls[q][i].value = PyNone

\* a request answered from the result of its retry
C26_Witness ==
    \E q \in Reqs :
        /\ Done(q) /\ response[q].status = 200
        /\ Len(calls[q]) = 2 /\ calls[q][2].value = RawObjSegments
        /\ response[q].body.text = Str(<<"a", " ", "b">>)

\* C27: at every transcribe invocation the path given is the request's
\* scratch file, which exists and holds exactly the uploaded bytes; the file
\* is not deleted before the last invocation has ended.
C27_TranscribeSeesWholeUpload ==
    \A q \in Reqs :
        /\ \A i \in DOMAIN calls[q] :
              /\ calls[q][i].path = p[q]
              /\ calls[q][i].seen # Absent
              /\ calls[q][i].seen = file[q].content
        /\ pc[q] \in {"transcribe", "retry"}
              => fs[p[q]] = file[q].content /\ removal[q] = "none"

\* the retry found the whole upload in the scratch file
C27_Witness ==
    \E q \in Reqs :
        /\ Len(calls[q]) = 2
        /\ calls[q][2].seen = Bytes(MAX_FILE_SIZE, "B")
        /\ file[q].content = Bytes(MAX_FILE_SIZE, "B")

\* C28: a request that upload validation rejects (no filename, a body larger
\* than MAX_FILE_SIZE, an empty body) after it met a loaded model is answered
\* 400 with no scratch file created and no transcribe invocation, and the
\* step that rejects it changes neither the model handle nor a scratch file;
\* a body of exactly MAX_FILE_SIZE bytes is not rejected.
C28_RejectedUploadTouchesNothing ==
    /\ [](\A q \in Reqs :
            (Done(q) /\ UploadRejected(q)
                    /\ response[q] # HTTPException(500, "Model not loaded"))
                => /\ response[q].status = 400
                   /\ ~Created(q) /\ calls[q] = << >> /\ removal[q] = "none")
    /\ [](\A q \in Reqs :
            (Done(q) /\ file[q].filename /\ file[q].content.len = MAX_FILE_SIZE)
                => response[q].status # 400)
    /\ [][\A q \in Reqs :
            response'[q].status = 400 /\ response[q].status # 400
                => model' = model /\ fs' = fs]_vars

\* an empty upload was answered 400
C28_Witness ==
    \E q \in Reqs :
        /\ Done(q) /\ response[q] = HTTPException(400, "Empty file provided")
        /\ file[q].filename /\ model = TheModel

(***************************************************************************)
(* Concurrent requests (SpecConcurrent).                                   *)
(***************************************************************************)
\* the request holds a scratch file: created and not yet through finally
HoldsFile(q) == pc[q] \in {"write", "transcribe", "retry", "normalize", "finally"}

\* C11: requests in flight at once hold scratch files under distinct names;
\* every transcribe call of a request was given the request's own file and
\* found the request's own upload in it; a step of one request changes no
\* scratch file but its own; and every request whose processing produced a
\* transcript completes with status 200 while another request is in flight.
C11_ScratchFilesIsolated ==
    /\ [](\A q1, q2 \in Concurrent :
            q1 # q2 /\ HoldsFile(q1) /\ HoldsFile(q2) => p[q1] # p[q2])
    /\ [](\A q \in Concurrent : \A i \in DOMAIN calls[q] :
            calls[q][i].path = p[q] /\ calls[q][i].seen = file[q].content)
    /\ [][\A x \in Paths :
            fs'[x] # fs[x] => \E q \in Concurrent : pc'[q] # pc[q] /\ p'[q] = x]_vars
    /\ [][\A q \in Concurrent :
            (/\ pc[q] = "finally" /\ pc'[q] = "done" /\ Returned(q)
             /\ \E q2 \in Concurrent : q2 # q /\ HoldsFile(q2))
                => response'[q].status = 200]_vars

(***************************************************************************)
(* Properties of the normalisation functions (SpecFunctions).              *)
(***************************************************************************)
\* C13: extract_text never raises and returns a string, for every shape of
\* raw result, of segment element and of segment text value.
C13_ExtractTextTotal ==
    fcall.fn = "extract_text" => fcall.out.kind = "str"

\* the raw result has no segments: it is None or a primitive, it has no
\* segments field, or its segments field is None or empty
NoSegmentsIn(x) ==
    \/ x.kind \notin {"obj", "dict"}
    \/ ~HasKey(x.v, "segments")
    \/ GetKey(x.v, "segments") = PyNone
    \/ GetKey(x.v, "segments") = List(<< >>)

\* C14: whenever extract_segments returns, it returns None or a sequence that
\* is not empty; for a raw result without segments it returns None, and the
\* JSON record built from that result carries segments = None.
C14_SegmentsNonEmptyOrNone ==
    fcall.fn = "extract_segments" =>
        /\ fcall.out # List(<< >>)
        /\ \/ fcall.out = PyNone
           \/ fcall.out.kind = "list" /\ Len(fcall.out.v) > 0
           \/ IsRaise(fcall.out)
        /\ NoSegmentsIn(fcall.arg) =>
            /\ fcall.out = PyNone
            /\ LET ret == Normalize(fcall.arg, Str(<<"j", "s", "o", "n">>), PyNone)
               IN  ret.kind = "return" => ret.v.segments = PyNone

\* the mapping {"segments": []} has been given to extract_segments
C14_Witness ==
    /\ fcall.fn = "extract_segments"
    /\ fcall.arg = Dict(<< <<"segments", List(<< >>)>> >>)
    /\ fcall.out = PyNone

\* C15: clean_text(clean_text(s)) = clean_text(s) for every string s.
C15_CleanTextIdempotent ==
    fcall.fn = "clean_text(clean_text)" => fcall.out = fcall.first

\* '<un<unk>k>' has been cleaned twice: removing the marker left '<un k>',
\* which the second call returns as it is
C15_Witness ==
    /\ fcall.fn = "clean_text(clean_text)"
    /\ fcall.arg = Str(<<"<", "u", "n", "<", "u", "n", "k", ">", "k", ">">>)
    /\ fcall.first = Str(<<"<", "u", "n", " ", "k", ">">>)
    /\ fcall.out = fcall.first

\* the raw segments of a raw result that extract_segments turned into a list
RawSegs(x) == py_iter(GetKey(x.v, "segments")).v
\* the segment exposes the field as an attribute or as a mapping key
Exposes(seg, k) == seg.kind \in {"obj", "dict"} /\ HasKey(seg.v, k)
\* the record has the timing field exactly when the segment exposes it, and
\* then with the segment's value
TimingKept(rec, seg, k) ==
    /\ HasKey(rec.v, k) <=> Exposes(seg, k)
    /\ HasKey(rec.v, k) => GetKey(rec.v, k) = GetKey(seg.v, k)

\* C16: in every returned list, record i has start exactly when raw segment i
\* exposes start, as an attribute or as a mapping key, and with the same
\* value; likewise for end; whatever the shape of the raw result.
C16_TimingIffExposed ==
    fcall.fn = "extract_segments" /\ fcall.out.kind = "list" =>
        \A i \in DOMAIN fcall.out.v :
            /\ i \in DOMAIN RawSegs(fcall.arg)
            /\ TimingKept(fcall.out.v[i], RawSegs(fcall.arg)[i], "start")
            /\ TimingKept(fcall.out.v[i], RawSegs(fcall.arg)[i], "end")

\* the raw result with its segments replaced by the one segment seg
WithOnly(x, seg) ==
    [x EXCEPT !.v = [j \in DOMAIN x.v |->
        IF x.v[j][1] = "segments" THEN <<"segments", List(<< seg >>)>> ELSE x.v[j]]]

\* C17: a returned list has as many records as the raw result has segments,
\* and record i is the record extract_segments makes of raw segment i alone.
C17_CountAndOrderKept ==
    fcall.fn = "extract_segments" /\ fcall.out.kind = "list" =>
        /\ Len(fcall.out.v) = Len(RawSegs(fcall.arg))
        /\ \A i \in DOMAIN RawSegs(fcall.arg) :
              extract_segments(WithOnly(fcall.arg, RawSegs(fcall.arg)[i]))
                  = List(<< fcall.out.v[i] >>)

\* two segments, the first with empty text and timing, the second a word
\* without timing, came out in this order
C17_Witness ==
    /\ fcall.fn = "extract_segments"
    /\ fcall.arg = Dict(<< <<"segments",
            List(<< Dict(<< <<"text", Str(<< >>)>>, <<"start", Num(0)>> >>),
                    Dict(<< <<"text", Str(<<"a">>)>> >>) >>)>> >>)
    /\ fcall.out = List(<< Dict(<< <<"text", Str(<< >>)>>, <<"start", Num(0)>> >>),
                           Dict(<< <<"text", Str(<<"a">>)>> >>) >>)

\* C19: extract_text of a raw result whose segments are empty and that has no
\* text of its own is the empty string, for an attribute object and for a
\* mapping.
C19_EmptySegmentsGiveEmptyText ==
    (/\ fcall.fn = "extract_text"
     /\ fcall.arg.kind \in {"obj", "dict"}
     /\ fcall.arg.v = << <<"segments", List(<< >>)>> >>)
        => fcall.out = Str(<< >>)

\* the text of a raw segment: its text attribute if it has one, else its
\* "text" key if it is a mapping (empty when the key is missing), else its
\* string conversion
ResolvedText(seg) ==
    IF seg.kind = "obj" /\ HasKey(seg.v, "text") THEN GetKey(seg.v, "text")
    ELSE IF seg.kind = "dict"
         THEN (IF HasKey(seg.v, "text") THEN GetKey(seg.v, "text") ELSE Str(<< >>))
    ELSE Str(py_str(seg))
\* the raw result has a segments field that holds a sequence with elements
HasSegments(x) ==
    /\ x.kind \in {"obj", "dict"}
    /\ HasKey(x.v, "segments")
    /\ GetKey(x.v, "segments").kind = "list"
    /\ Len(GetKey(x.v, "segments").v) > 0
\* the resolved texts of the raw result's segments, and whether all are strings
ResolvedTexts(x) == [i \in DOMAIN RawSegs(x) |-> ResolvedText(RawSegs(x)[i])]
AllStrings(ts) == \A i \in DOMAIN ts : ts[i].kind = "str"
\* strings joined by single spaces
Joined(ts) == Str(JoinStrings([i \in DOMAIN ts |-> ts[i].v], <<" ">>))

\* C22: for a mapping result and for an attribute result alike, record i of
\* extract_segments carries the resolved text of raw segment i, and the text
\* extract_text joins from the segments is the join of their resolved texts.
C22_SegmentTextResolution ==
    /\ fcall.fn = "extract_segments" /\ fcall.out.kind = "list" =>
          \A i \in DOMAIN fcall.out.v :
              GetKey(fcall.out.v[i].v, "text") = ResolvedText(RawSegs(fcall.arg)[i])
    /\ (/\ fcall.fn = "extract_text" /\ HasSegments(fcall.arg)
        /\ fcall.arg.kind = "dict" \/ HasKey(fcall.arg.v, "text")
        /\ AllStrings(ResolvedTexts(fcall.arg)))
          => fcall.out = Joined(ResolvedTexts(fcall.arg))

\* C23: for an attribute object with a segments sequence that is not empty,
\* with or without a text attribute, extract_text is the segments' resolved
\* texts joined by single spaces in order; the object's own text is the
\* result only when segments is absent, None or empty.
C23_SegmentsBeforeOwnText ==
    fcall.fn = "extract_text" /\ fcall.arg.kind = "obj" =>
        /\ HasSegments(fcall.arg) /\ AllStrings(ResolvedTexts(fcall.arg))
              => fcall.out = Joined(ResolvedTexts(fcall.arg))
        /\ (HasKey(fcall.arg.v, "text") /\ NoSegmentsIn(fcall.arg))
              => fcall.out = GetKey(fcall.arg.v, "text")

\* the characters of s that are not white space
RECURSIVE Inked(_)
Inked(s) ==
    IF Len(s) = 0 THEN << >>
    ELSE IF s[1] \in WhiteSpace THEN Inked(Tail(s))
    ELSE << s[1] >> \o Inked(Tail(s))
\* the marker in any letter case at index j of s
MarkerAt(s, j) ==
    /\ j + 4 <= Len(s)
    /\ SubSeq(s, j, j + 4) \in
          {<<"<", u, n, k, ">">> : u \in {"u", "U"}, n \in {"n", "N"}, k \in {"k", "K"}}
\* s without its markers, taken from the left
RECURSIVE Unmarked(_)
Unmarked(s) ==
    IF Len(s) = 0 THEN << >>
    ELSE IF MarkerAt(s, 1) THEN Unmarked(SubSeq(s, 6, Len(s)))
    ELSE << s[1] >> \o Unmarked(Tail(s))

\* C24: the result of clean_text holds no marker in any letter case, no white
\* space at either end, no white space but the space, and no two spaces in a
\* row; its other characters are those of the input outside the markers, in
\* order; an input of white space only gives the empty string.
C24_CleanTextShape ==
    fcall.fn = "clean_text" =>
        LET s == fcall.arg.v
            t == fcall.out.v
        IN  /\ fcall.out.kind = "str"
            /\ \A j \in DOMAIN t : ~MarkerAt(t, j)
            /\ Len(t) > 0 => t[1] # " " /\ t[Len(t)] # " "
            /\ \A j \in DOMAIN t : t[j] \notin WhiteSpace \ {" "}
            /\ \A j \in 1..(Len(t) - 1) : ~(t[j] = " " /\ t[j + 1] = " ")
            /\ Inked(t) = Inked(Unmarked(s))
            /\ Inked(s) = << >> => t = << >>

\* a marker in upper case, a tab and a letter have been cleaned to the letter
C24_Witness ==
    /\ fcall.fn = "clean_text"
    /\ fcall.arg = Str(<<"<", "U", "N", "k", ">", "\t", "a">>)
    /\ fcall.out = Str(<<"a">>)

\* C29: whenever extract_segments returns a list, extract_text of the same
\* raw result is the texts of its records joined by single spaces in order;
\* and whenever the raw result has segments that extract_text joins,
\* extract_segments does not return None.
C29_TextAgreesWithSegments ==
    fcall.fn = "extract_segments" =>
        /\ fcall.out.kind = "list" =>
              LET ts == [i \in DOMAIN fcall.out.v |-> GetKey(fcall.out.v[i].v, "text")]
              IN  AllStrings(ts) /\ extract_text(fcall.arg) = Joined(ts)
        /\ HasSegments(fcall.arg) => fcall.out # PyNone

(***************************************************************************)
(* Properties of GET / (SpecPages).                                        *)
(***************************************************************************)
\* no place get_index_path looks at holds a landing page
NoLandingPage == \A x \in Places : ~index_html[x]

\* C20: a GET / answered while no landing page exists is answered 200 with
\* the JSON object {status: "ok"} when a model is loaded at that moment and
\* {status: "error"} when none is.
C20_RootReportsModel ==
    [][root_calls' # root_calls /\ NoLandingPage
          => root_response' = JSONResponse(200,
                 StatusBody(IF model = PyNone THEN "error" ELSE "ok"))]_vars

\* two GET / requests have been answered, the latest one with "ok": no
\* landing page exists and the model is loaded
C20_Witness ==
    /\ root_calls = 2
    /\ NoLandingPage
    /\ model = TheModel
    /\ root_response = JSONResponse(200, StatusBody("ok"))

\* C21: a call of load_model made while a model is loaded leaves the handle
\* as it is and calls neither from_pretrained nor snapshot_download; and
\* over all calls from_pretrained has returned a model at most once.
C21_LoadedModelNotReloaded ==
    /\ [][loader'.calls # loader.calls /\ model # PyNone
            => /\ model' = model
               /\ loader'.invoked = loader.invoked
               /\ loader'.downloads = loader.downloads]_vars
    /\ [](loader.returned <= 1)

\* three calls of load_model: one loaded the model without a download, the
\* other two found it loaded
C21_Witness ==
    /\ loader = [calls |-> 3, downloads |-> 0, invoked |-> 1, returned |-> 1]
    /\ model = TheModel

\* C30: GET /health reports status "healthy" exactly when model_loaded is
\* true, and answers 200 when a model is loaded and 503 when none is.
C30_HealthStatusCode ==
    [][health_response' # health_response
          => /\ health_response'.body.status = "healthy"
                    <=> health_response'.body.model_loaded
             /\ health_response'.status = (IF model # PyNone THEN 200 ELSE 503)]_vars

====
